---- MODULE Spec2Model ----
(***************************************************************************)
(* A model of the GeoApi client (src/index.js): base URL normalization,    *)
(* App Check token management, the protected-call guard, the endpoint      *)
(* methods, and request() with buildError.                                 *)
(*                                                                         *)
(* JavaScript values are tagged records, so that truthiness and typeof are *)
(* computed as the language computes them.  Strings are TLA+ strings.      *)
(***************************************************************************)
EXTENDS Integers, Sequences, FiniteSets, TLC

VARIABLES constructed, baseURL, client, appCheckToken, inflight, last

vars == <<constructed, baseURL, client, appCheckToken, inflight, last>>

(***************************************************************************)
(* Bounds of the model.                                                    *)
(***************************************************************************)
\* requests that may be awaiting the transport at the same time
MaxInflight == 1
\* leading / trailing padding characters of a generated URL input
MaxPad == 2

(***************************************************************************)
(* JavaScript values.                                                      *)
(***************************************************************************)
Undefined == [t |-> "undefined"]
Null == [t |-> "null"]
NaN == [t |-> "nan"]
Str(s) == [t |-> "string", s |-> s]
Num(n) == [t |-> "number", n |-> n]
Bool(b) == [t |-> "boolean", b |-> b]
\* an object is its properties in insertion order: <<name, value>> pairs
Obj(props) == [t |-> "object", o |-> props]
EmptyObj == Obj(<<>>)

\* ToBoolean
Truthy(v) ==
    CASE v.t = "undefined" -> FALSE
      [] v.t = "null" -> FALSE
      [] v.t = "nan" -> FALSE
      [] v.t = "string" -> v.s # ""
      [] v.t = "number" -> v.n # 0
      [] v.t = "boolean" -> v.b
      [] OTHER -> TRUE

\* the typeof operator
TypeOf(v) ==
    CASE v.t = "nan" -> "number"
      [] v.t = "null" -> "object"
      [] OTHER -> v.t

\* the property names of an object, in order
Keys(v) == [i \in 1..Len(v.o) |-> v.o[i][1]]

\* the value of property k (the last one set), Undefined when there is none
Get(v, k) ==
    IF \E i \in 1..Len(v.o) : v.o[i][1] = k
    THEN v.o[CHOOSE i \in 1..Len(v.o) : v.o[i][1] = k][2]
    ELSE Undefined

(***************************************************************************)
(* Strings.                                                                *)
(***************************************************************************)
Char(s, i) == SubSeq(s, i, i)

IsWhitespace(c) == c \in {" ", "\t", "\n"}

UpperLetters == "ABCDEFGHIJKLMNOPQRSTUVWXYZ"
LowerLetters == "abcdefghijklmnopqrstuvwxyz"

UpperSet == {Char(UpperLetters, i) : i \in 1..26}
LowerOf ==
    [c \in UpperSet |->
        Char(LowerLetters, CHOOSE i \in 1..26 : Char(UpperLetters, i) = c)]

LowerChar(c) == IF c \in UpperSet THEN LowerOf[c] ELSE c

\* String.prototype.toLowerCase on the letters A-Z
ToLowerCase(s) ==
    LET lower[i \in 0..Len(s)] ==
            IF i = 0 THEN "" ELSE lower[i - 1] \o LowerChar(Char(s, i))
    IN  lower[Len(s)]

StartsWith(s, p) == Len(s) >= Len(p) /\ SubSeq(s, 1, Len(p)) = p

EndsWith(s, p) == Len(s) >= Len(p) /\ SubSeq(s, Len(s) - Len(p) + 1, Len(s)) = p

Contains(s, p) ==
    \E i \in 0..(Len(s) - Len(p)) : SubSeq(s, i + 1, i + Len(p)) = p

RECURSIVE TrimStart(_)
TrimStart(s) ==
    IF s # "" /\ IsWhitespace(Char(s, 1)) THEN TrimStart(Tail(s)) ELSE s

RECURSIVE TrimEnd(_)
TrimEnd(s) ==
    IF s # "" /\ IsWhitespace(Char(s, Len(s)))
    THEN TrimEnd(SubSeq(s, 1, Len(s) - 1))
    ELSE s

\* String.prototype.trim
Trim(s) == TrimEnd(TrimStart(s))

\* Array.prototype.join
RECURSIVE Join(_, _)
Join(parts, sep) ==
    IF Len(parts) = 0 THEN ""
    ELSE IF Len(parts) = 1 THEN parts[1]
    ELSE parts[1] \o sep \o Join(Tail(parts), sep)

\* JSON.stringify of a value that is not undefined (strings here hold no
\* character that needs escaping)
RECURSIVE JSONStringify(_)
RECURSIVE JSONMembers(_)
JSONMembers(props) ==
    IF Len(props) = 0 THEN <<>>
    ELSE IF props[1][2].t = "undefined" THEN JSONMembers(Tail(props))
    ELSE <<"\"" \o props[1][1] \o "\":" \o JSONStringify(props[1][2])>>
             \o JSONMembers(Tail(props))
JSONStringify(v) ==
    CASE v.t = "string" -> "\"" \o v.s \o "\""
      [] v.t = "number" -> ToString(v.n)
      [] v.t = "boolean" -> IF v.b THEN "true" ELSE "false"
      [] v.t = "object" -> "{" \o Join(JSONMembers(v.o), ",") \o "}"
      [] OTHER -> "null"

(***************************************************************************)
(* Module-level functions of src/index.js.                                 *)
(***************************************************************************)
DEFAULT_BASE_URL == "api.geo.oof2510.space"

\* new Error(message)
NewError(message) == [t |-> "error", name |-> "Error", message |-> message]

Returned(value) == [ok |-> TRUE, value |-> value]
Thrown(error) == [ok |-> FALSE, error |-> error]

\* /^https?:\/\//i.test(s): the pattern reads at most 8 characters
HasProtocol(s) ==
    LET head == ToLowerCase(SubSeq(s, 1, IF Len(s) < 8 THEN Len(s) ELSE 8))
    IN  StartsWith(head, "http://") \/ StartsWith(head, "https://")

\* s.replace(/\/$/, ''): the pattern matches at most once, at the very end
StripTrailingSlash(s) ==
    IF EndsWith(s, "/") THEN SubSeq(s, 1, Len(s) - 1) ELSE s

\* normalizeBaseUrl forcing https:// onto every URL
normalizeBaseUrl_forcehttps(url) ==
    IF ~Truthy(url) THEN Thrown(NewError("A base URL must be provided."))
    ELSE Returned(StripTrailingSlash("https://" \o Trim(url.s)))

\* normalizeBaseUrl falling back to the default URL instead of throwing
normalizeBaseUrl_fallback(url) ==
    LET trimmed == IF Truthy(url) THEN Trim(url.s) ELSE DEFAULT_BASE_URL
        withProtocol == IF HasProtocol(trimmed) THEN trimmed
                        ELSE "https://" \o trimmed
    IN  Returned(StripTrailingSlash(withProtocol))

normalizeBaseUrl(url) ==
    IF ~Truthy(url) THEN Thrown(NewError("A base URL must be provided."))
    ELSE IF url.t # "string"
    THEN Thrown([t |-> "error", name |-> "TypeError",
                 message |-> "url.trim is not a function"])
    ELSE LET trimmed == Trim(url.s)
             withProtocol == IF HasProtocol(trimmed) THEN trimmed
                             ELSE "https://" \o trimmed
         IN  Returned(StripTrailingSlash(withProtocol))

\* what the transport raises: error.response, error.request, error.message
AxiosError(response, request, message) ==
    [t |-> "error", name |-> "AxiosError", response |-> response,
     request |-> request, message |-> message]
Response(status, data) == [t |-> "response", status |-> status, data |-> data]
ClientRequest == [t |-> "request"]

\* buildError leaving the status off the wrapped error
buildError_nostatus(error, context) ==
    [t |-> "error", name |-> "Error",
     message |-> "Api request failed"
                   \o (IF Truthy(context) THEN " during " \o context.s ELSE ""),
     status |-> Undefined,
     original |-> error]

buildError(error, context) ==
    LET head == <<"Api request failed"
                    \o (IF Truthy(context) THEN " during " \o context.s ELSE "")>>
        payload == IF TypeOf(error.response.data) = "string"
                   THEN error.response.data.s
                   ELSE JSONStringify(error.response.data)
        parts ==
            IF Truthy(error.response)
            THEN head \o <<"status " \o ToString(error.response.status)>>
                      \o (IF Truthy(error.response.data)
                          THEN <<"response: " \o payload>> ELSE <<>>)
            ELSE IF Truthy(error.request)
            THEN head \o <<"no response received from server">>
            ELSE IF Truthy(error.message)
            THEN head \o <<error.message.s>>
            ELSE head
    IN  [t |-> "error", name |-> "Error", message |-> Join(parts, " | "),
         status |-> IF Truthy(error.response) THEN Num(error.response.status)
                    ELSE Undefined,
         original |-> error]

(***************************************************************************)
(* The client: this.baseURL, this.client (the axios instance with its      *)
(* defaults), this.appCheckToken; the requests handed to the transport and *)
(* not yet settled; and the outcome of the latest step, with the number of *)
(* transport invocations the step made.                                    *)
(***************************************************************************)
Timeout == 15000
AppCheckHeader == "X-Firebase-AppCheck"
NoHeaders == [h \in {} |-> ""]

NoClient == [baseURL |-> "", timeout |-> 0, headers |-> NoHeaders]

\* axios.create({ baseURL, timeout: 15000 })
AxiosCreate(url) == [baseURL |-> url, timeout |-> Timeout, headers |-> NoHeaders]

\* the outcome of a step: a call that returned, threw before reaching the
\* transport (an async method's rejection without a request) or handed a
\* request to the transport; or a request that settled
Outcome(op, args, result, error, value, context, sent) ==
    [op |-> op, args |-> args, result |-> result, error |-> error,
     value |-> value, context |-> context, sent |-> sent]

NoStep == Outcome("none", <<>>, "none", Undefined, Undefined, Undefined, 0)

Init ==
    /\ constructed = FALSE
    /\ baseURL = ""
    /\ client = NoClient
    /\ appCheckToken = Undefined
    /\ inflight = <<>>
    /\ last = NoStep

\* the body of setAppCheckToken on a client object cl: the new token and client
setAppCheckToken_keepheader(cl, token) ==
    [appCheckToken |-> token,
     client |-> IF Truthy(token)
                THEN [cl EXCEPT !.headers = (AppCheckHeader :> token.s)]
                ELSE cl]

setAppCheckToken(cl, token) ==
    [appCheckToken |-> token,
     client |-> IF Truthy(token)
                THEN [cl EXCEPT !.headers = (AppCheckHeader :> token.s)]
                ELSE [cl EXCEPT !.headers = NoHeaders]]

\* new GeoApi(baseURL, appCheckToken): an undefined argument takes its default
Construct(b, t) ==
    LET url == IF b = Undefined THEN Str(DEFAULT_BASE_URL) ELSE b
        token == IF t = Undefined THEN Null ELSE t
        n == normalizeBaseUrl(url)
        fresh == AxiosCreate(n.value)
        set == setAppCheckToken(fresh, token)
    IN  /\ ~constructed
        /\ IF n.ok
           THEN /\ constructed' = TRUE
                /\ baseURL' = n.value
                /\ client' = IF Truthy(token) THEN set.client ELSE fresh
                /\ appCheckToken' = IF Truthy(token) THEN set.appCheckToken ELSE Null
                /\ last' = Outcome("constructor", <<b, t>>, "returned", Undefined,
                                   Undefined, Undefined, 0)
           ELSE /\ last' = Outcome("constructor", <<b, t>>, "threw", n.error,
                                   Undefined, Undefined, 0)
                /\ UNCHANGED <<constructed, baseURL, client, appCheckToken>>
        /\ UNCHANGED inflight

\* setBaseUrl that also retargets the requests the transport already holds
SetBaseUrl_retarget(u) ==
    LET n == normalizeBaseUrl(u)
    IN  /\ constructed
        /\ IF n.ok
           THEN /\ baseURL' = n.value
                /\ client' = [client EXCEPT !.baseURL = n.value]
                /\ inflight' = [i \in 1..Len(inflight) |->
                                   [inflight[i] EXCEPT !.baseURL = n.value]]
                /\ last' = Outcome("setBaseUrl", <<u>>, "returned", Undefined,
                                   Undefined, Undefined, 0)
           ELSE /\ last' = Outcome("setBaseUrl", <<u>>, "threw", n.error,
                                   Undefined, Undefined, 0)
                /\ UNCHANGED <<baseURL, client, inflight>>
        /\ UNCHANGED <<constructed, appCheckToken>>

SetBaseUrl(u) ==
    LET n == normalizeBaseUrl(u)
    IN  /\ constructed
        /\ IF n.ok
           THEN /\ baseURL' = n.value
                /\ client' = [client EXCEPT !.baseURL = n.value]
                /\ last' = Outcome("setBaseUrl", <<u>>, "returned", Undefined,
                                   Undefined, Undefined, 0)
           ELSE /\ last' = Outcome("setBaseUrl", <<u>>, "threw", n.error,
                                   Undefined, Undefined, 0)
                /\ UNCHANGED <<baseURL, client>>
        /\ UNCHANGED <<constructed, appCheckToken, inflight>>

SetAppCheckToken(t) ==
    LET set == setAppCheckToken(client, t)
    IN  /\ constructed
        /\ appCheckToken' = set.appCheckToken
        /\ client' = set.client
        /\ last' = Outcome("setAppCheckToken", <<t>>, "returned", Undefined,
                           Undefined, Undefined, 0)
        /\ UNCHANGED <<constructed, baseURL, inflight>>

\* ensureAppCheckToken with the test dropped
ensureAppCheckToken_never(action) == Returned(Undefined)

ensureAppCheckToken(action) ==
    IF ~Truthy(appCheckToken)
    THEN Thrown(NewError("An App Check token is required to " \o action
                         \o ". Call setAppCheckToken(token) first."))
    ELSE Returned(Undefined)

(***************************************************************************)
(* The endpoint methods.  Each is the part of the method that runs before  *)
(* the transport is reached: it throws, or it yields the request           *)
(* descriptor and the context it passes to request().                      *)
(***************************************************************************)
Config(method, url, data, params) ==
    [method |-> method, url |-> url, data |-> data, params |-> params]

Pass(config, context) ==
    [ok |-> TRUE, config |-> config, context |-> Str(context)]

getImage ==
    Pass(Config("get", "/getImage", Undefined, Undefined), "fetch image payload")

getPano ==
    Pass(Config("get", "/getPano", Undefined, Undefined),
         "fetch panorama image payload")

startGame ==
    LET guard == ensureAppCheckToken("start a game")
    IN  IF ~guard.ok THEN guard
        ELSE Pass(Config("post", "/game/start", Undefined, Undefined), "start game")

\* value < 0 on a value of type number
Negative(v) == v.t = "number" /\ v.n < 0

\* submitScore passing metadata on as given, without the default
submitScore_nodefault(gameSessionId, score, metadata) ==
    LET guard == ensureAppCheckToken("submit a score")
    IN  IF ~guard.ok THEN guard
        ELSE IF ~Truthy(gameSessionId)
        THEN Thrown(NewError("gameSessionId is required to submit a score."))
        ELSE IF TypeOf(score) # "number"
        THEN Thrown(NewError("score must be provided as a number."))
        ELSE Pass(Config("post", "/game/submit",
                         Obj(<< <<"gameSessionId", gameSessionId>>,
                                <<"score", score>>,
                                <<"metadata", metadata>> >>),
                         Undefined),
                  "submit score")

submitScore(gameSessionId, score, metadata) ==
    LET guard == ensureAppCheckToken("submit a score")
        meta == IF metadata = Undefined THEN EmptyObj ELSE metadata
    IN  IF ~guard.ok THEN guard
        ELSE IF ~Truthy(gameSessionId)
        THEN Thrown(NewError("gameSessionId is required to submit a score."))
        ELSE IF TypeOf(score) # "number"
        THEN Thrown(NewError("score must be provided as a number."))
        ELSE Pass(Config("post", "/game/submit",
                         Obj(<< <<"gameSessionId", gameSessionId>>,
                                <<"score", score>>,
                                <<"metadata", meta>> >>),
                         Undefined),
                  "submit score")

startAiDuel ==
    LET guard == ensureAppCheckToken("start an AI duel")
    IN  IF ~guard.ok THEN guard
        ELSE Pass(Config("post", "/ai-duel/start", Undefined, Undefined),
                  "start AI duel")

\* submitAiGuess validating its arguments before it asks for the token
submitAiGuess_validatefirst(matchId, roundIndex, guess) ==
    LET guard == ensureAppCheckToken("submit an AI duel guess")
    IN  IF ~Truthy(matchId)
        THEN Thrown(NewError("matchId is required to submit an AI duel guess."))
        ELSE IF TypeOf(roundIndex) # "number" \/ Negative(roundIndex)
        THEN Thrown(NewError("roundIndex must be a non-negative number."))
        ELSE IF ~guard.ok THEN guard
        ELSE Pass(Config("post", "/ai-duel/guess",
                         Obj(<< <<"matchId", matchId>>,
                                <<"roundIndex", roundIndex>>,
                                <<"guess", guess>> >>),
                         Undefined),
                  "submit AI duel guess")

submitAiGuess(matchId, roundIndex, guess) ==
    LET guard == ensureAppCheckToken("submit an AI duel guess")
    IN  IF ~guard.ok THEN guard
        ELSE IF ~Truthy(matchId)
        THEN Thrown(NewError("matchId is required to submit an AI duel guess."))
        ELSE IF TypeOf(roundIndex) # "number" \/ Negative(roundIndex)
        THEN Thrown(NewError("roundIndex must be a non-negative number."))
        ELSE Pass(Config("post", "/ai-duel/guess",
                         Obj(<< <<"matchId", matchId>>,
                                <<"roundIndex", roundIndex>>,
                                <<"guess", guess>> >>),
                         Undefined),
                  "submit AI duel guess")

getLeaderboard(limit) ==
    Pass(Config("get", "/leaderboard/top", Undefined,
                IF Truthy(limit) THEN Obj(<< <<"limit", limit>> >>) ELSE Undefined),
         "fetch leaderboard")

health ==
    Pass(Config("get", "/health", Undefined, Undefined), "fetch health status")

testAi(key) ==
    IF ~Truthy(key)
    THEN Thrown(NewError("A testing key is required to call the test AI endpoint."))
    ELSE Pass(Config("get", "/test-ai", Undefined, Obj(<< <<"key", key>> >>)),
              "test AI endpoint")

(***************************************************************************)
(* request(): this.client.request(config) hands the transport the request  *)
(* merged with the instance defaults as they are at the call; the awaited  *)
(* response resolves to response.data or rejects with buildError.          *)
(***************************************************************************)
Sent(op, config, context) ==
    [op |-> op, config |-> config, context |-> context,
     baseURL |-> client.baseURL, headers |-> client.headers]

\* a call of an endpoint method with the given arguments
Invoke(op, args, plan) ==
    /\ constructed
    /\ IF plan.ok
       THEN /\ Len(inflight) < MaxInflight
            /\ inflight' = Append(inflight, Sent(op, plan.config, plan.context))
            /\ last' = Outcome(op, args, "dispatched", Undefined, Undefined,
                               plan.context, Len(inflight') - Len(inflight))
       ELSE /\ inflight' = inflight
            /\ last' = Outcome(op, args, "threw", plan.error, Undefined,
                               Undefined, Len(inflight') - Len(inflight))
    /\ UNCHANGED <<constructed, baseURL, client, appCheckToken>>

GetImage == Invoke("getImage", <<>>, getImage)
GetPano == Invoke("getPano", <<>>, getPano)
StartGame == Invoke("startGame", <<>>, startGame)
SubmitScore(id, score, meta) ==
    Invoke("submitScore", <<id, score, meta>>, submitScore(id, score, meta))
StartAiDuel == Invoke("startAiDuel", <<>>, startAiDuel)
SubmitAiGuess(matchId, roundIndex, guess) ==
    Invoke("submitAiGuess", <<matchId, roundIndex, guess>>,
           submitAiGuess(matchId, roundIndex, guess))
GetLeaderboard(limit) == Invoke("getLeaderboard", <<limit>>, getLeaderboard(limit))
Health == Invoke("health", <<>>, health)
TestAi(key) == Invoke("testAi", <<key>>, testAi(key))

Remove(seq, i) == SubSeq(seq, 1, i - 1) \o SubSeq(seq, i + 1, Len(seq))

\* the transport settles the i-th pending request: with a response whose
\* data request() returns, or with an error that request() wraps
Settle(i, outcome) ==
    LET req == inflight[i]
    IN  /\ i \in 1..Len(inflight)
        /\ inflight' = Remove(inflight, i)
        /\ last' = IF outcome.ok
                   THEN Outcome(req.op, <<>>, "resolved", Undefined,
                                outcome.response.data, req.context, 0)
                   ELSE Outcome(req.op, <<>>, "rejected",
                                buildError(outcome.error, req.context),
                                Undefined, req.context, 0)
        /\ UNCHANGED <<constructed, baseURL, client, appCheckToken>>

(***************************************************************************)
(* Inputs.  A step draws its arguments from a record of finite sets; the   *)
(* specifications differ only in the sets they draw from.                  *)
(***************************************************************************)
Succeeds(data) == [ok |-> TRUE, response |-> Response(200, data)]
Fails(error) == [ok |-> FALSE, error |-> error]

Boom == Obj(<< <<"error", Str("boom")>> >>)

\* the cases of a failing transport: an HTTP error status (with a JSON
\* object, a string, a falsy JSON value or nothing as the body), no response
\* (network failure, timeout), and a request that could not be set up
TransportErrors ==
    {AxiosError(Response(500, Boom), ClientRequest,
                Str("Request failed with status code 500")),
     AxiosError(Response(500, Str("boom")), ClientRequest,
                Str("Request failed with status code 500")),
     AxiosError(Response(404, Str("")), ClientRequest,
                Str("Request failed with status code 404")),
     AxiosError(Response(503, Num(0)), ClientRequest,
                Str("Request failed with status code 503")),
     AxiosError(Response(400, Bool(FALSE)), ClientRequest,
                Str("Request failed with status code 400")),
     AxiosError(Undefined, ClientRequest, Str("timeout of 15000ms exceeded")),
     AxiosError(Undefined, ClientRequest, Str("Network Error")),
     AxiosError(Undefined, Undefined, Str("Invalid URL")),
     AxiosError(Undefined, Undefined, Str(""))}

Ok == Succeeds(Obj(<< <<"status", Str("ok")>> >>))
Http500 == Fails(AxiosError(Response(500, Boom), ClientRequest,
                            Str("Request failed with status code 500")))

\* tokens in breadth: one base URL, few arguments
TokenInputs ==
    [ctorUrls |-> {Str("a.io")},
     ctorTokens |-> {Undefined, Null, Str(""), Str("abc")},
     urls |-> {Str("a.io")},
     tokens |-> {Undefined, Null, Str(""), Str("abc"), Str("xyz")},
     ids |-> {Undefined, Str("g1")},
     scores |-> {Str("not-a-number"), Num(7)},
     metas |-> {Undefined},
     matchIds |-> {Str("m1")},
     rounds |-> {Num(-1), Num(0)},
     guesses |-> {Str("France")},
     limits |-> {Undefined},
     keys |-> {Str("k")},
     outcomes |-> {Ok, Http500}]

\* base URLs in breadth: one token, few arguments
UrlInputs ==
    [ctorUrls |-> {Undefined, Null, Str(""), Str("example.com/"),
                   Str("http://example.com")},
     ctorTokens |-> {Str("abc")},
     urls |-> {Undefined, Null, Str(""), Str("  "), Str(" a.io/ "),
               Str("HTTP://a.io//")},
     tokens |-> {Str("abc")},
     ids |-> {Str("g1")},
     scores |-> {Num(7)},
     metas |-> {Undefined},
     matchIds |-> {Str("m1")},
     rounds |-> {Num(0)},
     guesses |-> {Str("France")},
     limits |-> {Undefined},
     keys |-> {Str("k")},
     outcomes |-> {Ok}]

\* arguments in breadth: one base URL, a token or none
CallInputs ==
    [ctorUrls |-> {Undefined},
     ctorTokens |-> {Undefined, Str("abc")},
     urls |-> {Str(DEFAULT_BASE_URL)},
     tokens |-> {Null, Str("abc")},
     ids |-> {Undefined, Str(""), Str("g1")},
     scores |-> {Undefined, Str("not-a-number"), Num(0), Num(42), NaN},
     metas |-> {Undefined, Obj(<< <<"mode", Str("daily")>> >>)},
     matchIds |-> {Undefined, Str(""), Str("m1")},
     rounds |-> {Undefined, Str("1"), Num(-1), Num(0), Num(2), NaN},
     guesses |-> {Str("France")},
     limits |-> {Undefined, Num(0), Num(10), NaN, Str("abc")},
     keys |-> {Undefined, Str(""), Str("k")},
     outcomes |-> {Ok, Http500}]

\* transport outcomes in breadth: one base URL, one token, few arguments
ErrorInputs ==
    [ctorUrls |-> {Undefined},
     ctorTokens |-> {Undefined, Str("abc")},
     urls |-> {Str(DEFAULT_BASE_URL)},
     tokens |-> {Null, Str("abc")},
     ids |-> {Str("g1")},
     scores |-> {Num(7)},
     metas |-> {Undefined},
     matchIds |-> {Str("m1")},
     rounds |-> {Num(0)},
     guesses |-> {Str("France")},
     limits |-> {Num(10)},
     keys |-> {Str("k")},
     outcomes |-> {Ok} \cup {Fails(e) : e \in TransportErrors}]

\* configuration changes among calls: two base URLs, a token set, replaced
\* and cleared, one argument list per method
ConfigInputs ==
    [ctorUrls |-> {Str("a.io")},
     ctorTokens |-> {Undefined},
     urls |-> {Str("a.io"), Str("http://b.io")},
     tokens |-> {Null, Str("abc"), Str("xyz")},
     ids |-> {Str("g1")},
     scores |-> {Num(7)},
     metas |-> {Undefined},
     matchIds |-> {Str("m1")},
     rounds |-> {Num(0)},
     guesses |-> {Str("France")},
     limits |-> {Undefined},
     keys |-> {Str("k")},
     outcomes |-> {Ok, Http500}]

Step(in) ==
    \/ \E b \in in.ctorUrls, t \in in.ctorTokens : Construct(b, t)
    \/ \E u \in in.urls : SetBaseUrl(u)
    \/ \E t \in in.tokens : SetAppCheckToken(t)
    \/ GetImage
    \/ GetPano
    \/ StartGame
    \/ \E id \in in.ids, score \in in.scores, meta \in in.metas :
           SubmitScore(id, score, meta)
    \/ StartAiDuel
    \/ \E m \in in.matchIds, r \in in.rounds, g \in in.guesses :
           SubmitAiGuess(m, r, g)
    \/ \E limit \in in.limits : GetLeaderboard(limit)
    \/ Health
    \/ \E key \in in.keys : TestAi(key)
    \/ \E i \in 1..Len(inflight), o \in in.outcomes : Settle(i, o)

Next == Step(TokenInputs)

Spec == Init /\ [][Next]_vars

NextUrls == Step(UrlInputs)

SpecUrls == Init /\ [][NextUrls]_vars

NextCalls == Step(CallInputs)

SpecCalls == Init /\ [][NextCalls]_vars

NextErrors == Step(ErrorInputs)

SpecErrors == Init /\ [][NextErrors]_vars

NextConfig == Step(ConfigInputs)

SpecConfig == Init /\ [][NextConfig]_vars

(***************************************************************************)
(* normalizeBaseUrl on its own: an input is drawn, normalized, and the     *)
(* result normalized again.                                                *)
(***************************************************************************)
\* the strings over chars of length at most n
RECURSIVE Pads(_, _)
Pads(chars, n) ==
    IF n = 0 THEN {""}
    ELSE LET shorter == Pads(chars, n - 1)
         IN  shorter \cup {p \o c : p \in shorter, c \in chars}

Protocols == {"", "http://", "https://", "HTTPS://", "Http://", "http:/", "ftp://"}
Hosts == {"", "a.io", "a.io/v1"}

NormInputs ==
    {Undefined, Null}
    \cup {Str(lead \o protocol \o host \o trail) :
            lead \in Pads({" ", "\t"}, MaxPad), protocol \in Protocols,
            host \in Hosts, trail \in Pads({"/", " "}, MaxPad)}

InitNorm ==
    /\ constructed = FALSE
    /\ baseURL = ""
    /\ client = NoClient
    /\ appCheckToken = Undefined
    /\ inflight = <<>>
    /\ \E url \in NormInputs :
           last = Outcome("input", <<url>>, "none", Undefined, Undefined,
                          Undefined, 0)

\* normalizeBaseUrl(url)
Normalize ==
    LET n == normalizeBaseUrl(last.args[1])
    IN  /\ last.op = "input"
        /\ last' = IF n.ok
                   THEN Outcome("normalizeBaseUrl", last.args, "returned",
                                Undefined, Str(n.value), Undefined, 0)
                   ELSE Outcome("normalizeBaseUrl", last.args, "threw", n.error,
                                Undefined, Undefined, 0)
        /\ UNCHANGED <<constructed, baseURL, client, appCheckToken, inflight>>

\* normalizeBaseUrl(normalizeBaseUrl(url)): args holds url and the first result
NormalizeAgain ==
    LET n == normalizeBaseUrl(last.value)
    IN  /\ last.op = "normalizeBaseUrl"
        /\ last.result = "returned"
        /\ last' = IF n.ok
                   THEN Outcome("normalizeBaseUrl twice",
                                <<last.args[1], last.value>>, "returned",
                                Undefined, Str(n.value), Undefined, 0)
                   ELSE Outcome("normalizeBaseUrl twice",
                                <<last.args[1], last.value>>, "threw", n.error,
                                Undefined, Undefined, 0)
        /\ UNCHANGED <<constructed, baseURL, client, appCheckToken, inflight>>

NextNorm == Normalize \/ NormalizeAgain

SpecNorm == InitNorm /\ [][NextNorm]_vars

(***************************************************************************)
(* Properties.                                                             *)
(***************************************************************************)
\* the request the latest call handed to the transport
Newest == inflight[Len(inflight)]

\* the latest step was a call of an endpoint method (not a settlement)
IsCall(op) == last.op = op /\ last.result \in {"threw", "dispatched"}

ProtectedOps == {"startGame", "submitScore", "startAiDuel", "submitAiGuess"}

\* the action each protected method names when it refuses
ProtectedAction ==
    [startGame |-> "start a game", submitScore |-> "submit a score",
     startAiDuel |-> "start an AI duel",
     submitAiGuess |-> "submit an AI duel guess"]

\* C1: whatever constructor, setAppCheckToken and setBaseUrl calls came
\* before, a protected method called while no non-empty token is configured
\* fails with an error that names the action, and the transport is not
\* invoked.
C1_ProtectedCallNeedsToken ==
    \A op \in ProtectedOps :
        (IsCall(op) /\ ~Truthy(appCheckToken)) =>
            /\ last.result = "threw"
            /\ last.sent = 0
            /\ Contains(last.error.message, "token is required")
            /\ Contains(last.error.message, ProtectedAction[op])

\* C1 witness: the token was set to the empty string, then startGame refused
C1_Witness ==
    /\ IsCall("startGame")
    /\ last.result = "threw"
    /\ appCheckToken = Str("")
    /\ last.sent = 0

\* the header bag a request must carry for a given latest token value
HeadersFor(token) ==
    IF Truthy(token) THEN (AppCheckHeader :> token.s) ELSE NoHeaders

\* C2: after any setAppCheckToken calls (or a token given to the
\* constructor) the client holds the header X-Firebase-AppCheck with the
\* latest value when that value is a non-empty string, and holds no such
\* header and no usable token when it is null or empty; every request issued
\* carries exactly the header bag of that moment.
C2_HeaderFollowsToken ==
    /\ constructed => client.headers = HeadersFor(appCheckToken)
    /\ last.op = "setAppCheckToken" =>
           /\ client.headers = HeadersFor(last.args[1])
           /\ Truthy(last.args[1]) => appCheckToken = last.args[1]
           /\ ~Truthy(last.args[1]) => ~Truthy(appCheckToken)
    /\ (last.op = "constructor" /\ last.result = "returned") =>
           /\ client.headers = HeadersFor(last.args[2])
           /\ Truthy(last.args[2]) => appCheckToken = last.args[2]
           /\ ~Truthy(last.args[2]) => appCheckToken = Null
    /\ last.result = "dispatched" => Newest.headers = HeadersFor(appCheckToken)

\* C2 witness: a request issued under the token "abc" is still pending,
\* setAppCheckToken(null) has removed the header, and the request issued
\* next would carry none
C2_Witness ==
    /\ last.op = "setAppCheckToken"
    /\ last.args = <<Null>>
    /\ Len(inflight) = 1
    /\ inflight[1].headers = (AppCheckHeader :> "abc")
    /\ AppCheckHeader \notin DOMAIN client.headers

\* a response body is there: the response carried something other than an
\* empty body
BodyPresent(data) == data.t \notin {"undefined", "null"} /\ data # Str("")

\* the body as the message is to show it: the string itself, or its JSON text
Rendered(data) == IF data.t = "string" THEN data.s ELSE JSONStringify(data)

\* the number of times p occurs in s
Occurrences(s, p) ==
    Cardinality({i \in 0..(Len(s) - Len(p)) : SubSeq(s, i + 1, i + Len(p)) = p})

\* C3: when the transport fails, the message of the error request() throws
\* starts with the context of the calling operation and then falls in one
\* of three classes: a response was received (the message shows
\* "status <code>" and, when the response has a body, the body as a string
\* or as JSON text); a request was sent and nothing came back ("no response
\* received from server"); the request could not be sent (the underlying
\* error's message).
C3_MessageClasses ==
    last.result = "rejected" =>
        LET message == last.error.message
            cause == last.error.original
        IN  /\ StartsWith(message, "Api request failed during " \o last.context.s)
            /\ Truthy(cause.response) =>
                   /\ Contains(message,
                               " | status " \o ToString(cause.response.status))
                   /\ BodyPresent(cause.response.data) =>
                          Contains(message, Rendered(cause.response.data))
                   /\ ~Contains(message, "no response received from server")
            /\ (~Truthy(cause.response) /\ Truthy(cause.request)) =>
                   /\ Contains(message, " | no response received from server")
                   /\ ~Contains(message, " | status ")
                   /\ Occurrences(message, " | ") = 1
            /\ (~Truthy(cause.response) /\ ~Truthy(cause.request)) =>
                   /\ Contains(message, cause.message.s)
                   /\ ~Contains(message, "no response received from server")
                   /\ Occurrences(message, " | ") <= 1

\* C3 with "a body is present" read as the code reads it (a truthy body);
\* this much of C3 holds
C3_TruthyBodyOnly ==
    last.result = "rejected" =>
        LET message == last.error.message
            cause == last.error.original
        IN  /\ StartsWith(message, "Api request failed during " \o last.context.s)
            /\ Truthy(cause.response) =>
                   /\ Contains(message,
                               " | status " \o ToString(cause.response.status))
                   /\ Truthy(cause.response.data) =>
                          Contains(message, Rendered(cause.response.data))
                   /\ ~Contains(message, "no response received from server")
            /\ (~Truthy(cause.response) /\ Truthy(cause.request)) =>
                   /\ Contains(message, " | no response received from server")
                   /\ ~Contains(message, " | status ")
                   /\ Occurrences(message, " | ") = 1
            /\ (~Truthy(cause.response) /\ ~Truthy(cause.request)) =>
                   /\ Contains(message, cause.message.s)
                   /\ ~Contains(message, "no response received from server")
                   /\ Occurrences(message, " | ") <= 1

\* C4: the error request() throws on a transport failure carries the
\* transport's error itself, and a status that is the HTTP status of the
\* response when there was one and is undefined when there was none.
C4_CauseAndStatus ==
    [][\A i \in 1..Len(inflight), e \in TransportErrors :
           Settle(i, Fails(e)) =>
               /\ last'.result = "rejected"
               /\ last'.error.original = e
               /\ last'.error.status =
                      IF e.response.t = "response" THEN Num(e.response.status)
                      ELSE Undefined]_vars

\* C4 witness: an HTTP 500 was wrapped, and a timeout was wrapped
C4_Witness ==
    /\ last.result = "rejected"
    /\ last.error.original =
           AxiosError(Undefined, ClientRequest, Str("timeout of 15000ms exceeded"))
    /\ last.error.status = Undefined
    /\ Contains(last.error.message, "no response received from server")

\* the methods of the endpoint table other than getLeaderboard
TableOps ==
    {"getImage", "getPano", "startGame", "submitScore", "startAiDuel",
     "submitAiGuess", "health", "testAi"}

Meta(given) == IF given = Undefined THEN EmptyObj ELSE given

\* the request each method is to issue, with the body of submitScore under
\* the given field names
Table(op, args, id, meta) ==
    CASE op = "getImage" -> Config("get", "/getImage", Undefined, Undefined)
      [] op = "getPano" -> Config("get", "/getPano", Undefined, Undefined)
      [] op = "startGame" -> Config("post", "/game/start", Undefined, Undefined)
      [] op = "submitScore" ->
             Config("post", "/game/submit",
                    Obj(<< <<id, args[1]>>, <<"score", args[2]>>,
                           <<meta, Meta(args[3])>> >>),
                    Undefined)
      [] op = "startAiDuel" ->
             Config("post", "/ai-duel/start", Undefined, Undefined)
      [] op = "submitAiGuess" ->
             Config("post", "/ai-duel/guess",
                    Obj(<< <<"matchId", args[1]>>, <<"roundIndex", args[2]>>,
                           <<"guess", args[3]>> >>),
                    Undefined)
      [] op = "health" -> Config("get", "/health", Undefined, Undefined)
      [] op = "testAi" ->
             Config("get", "/test-ai", Undefined, Obj(<< <<"key", args[1]>> >>))

\* C5 as stated: a method whose guard and argument checks pass issues
\* exactly one request, with the method, path and field names of the
\* endpoint table, the body of submitScore being {id, score, meta}.
C5_TableAsStated ==
    \A op \in TableOps :
        (IsCall(op) /\ last.result = "dispatched") =>
            /\ last.sent = 1
            /\ Newest.op = op
            /\ Newest.config = Table(op, last.args, "id", "meta")

\* C5 amended: as stated, except that the body of submitScore is
\* {gameSessionId, score, metadata}, metadata defaulting to an empty object.
C5_EndpointTable ==
    \A op \in TableOps :
        (IsCall(op) /\ last.result = "dispatched") =>
            /\ last.sent = 1
            /\ Newest.op = op
            /\ Newest.config = Table(op, last.args, "gameSessionId", "metadata")

\* C5 witness: submitScore called without metadata sent an empty object
C5_Witness ==
    /\ IsCall("submitScore")
    /\ last.result = "dispatched"
    /\ last.args = <<Str("g1"), Num(42), Undefined>>
    /\ Newest.config.method = "post"
    /\ Newest.config.url = "/game/submit"
    /\ Keys(Newest.config.data) = <<"gameSessionId", "score", "metadata">>
    /\ Get(Newest.config.data, "metadata") = EmptyObj

\* the argument contracts: a non-empty string; a value of type number; a
\* number that is >= 0
NonEmpty(v) == v.t = "string" /\ v.s # ""
Numeric(v) == TypeOf(v) = "number"
AtLeastZero(v) == v.t = "number" /\ v.n >= 0

\* the latest call's arguments break the contract of its method
BreaksContract ==
    \/ IsCall("submitScore") /\ (~NonEmpty(last.args[1]) \/ ~Numeric(last.args[2]))
    \/ IsCall("submitAiGuess")
         /\ (~NonEmpty(last.args[1]) \/ ~Numeric(last.args[2])
               \/ ~AtLeastZero(last.args[2]))
    \/ IsCall("getLeaderboard")
         /\ last.args[1] # Undefined /\ ~Numeric(last.args[1])
    \/ IsCall("testAi") /\ ~NonEmpty(last.args[1])

\* C6: a call whose arguments break the contract of its method (submitScore:
\* id a non-empty string, score numeric; submitAiGuess: matchId non-empty,
\* roundIndex numeric and >= 0; getLeaderboard: limit numeric if given;
\* testAi: key a non-empty string) fails before the transport is invoked.
C6_ContractEnforced ==
    BreaksContract => (last.result = "threw" /\ last.sent = 0)

\* what the code does enforce of C6: every contract but the one of
\* getLeaderboard, with NaN passing for a roundIndex
C6_EnforcedPart ==
    (/\ BreaksContract
     /\ ~IsCall("getLeaderboard")
     /\ ~(IsCall("submitAiGuess") /\ last.args[2] = NaN))
        => (last.result = "threw" /\ last.sent = 0)

\* C10: getLeaderboard issues GET /leaderboard/top, without a query when it
\* is called without an argument and with the query limit = the argument
\* for every limit that is a number (NaN aside); it needs no token.
C10_LimitSent ==
    IsCall("getLeaderboard") =>
        /\ last.result = "dispatched"
        /\ last.sent = 1
        /\ Newest.config.method = "get"
        /\ Newest.config.url = "/leaderboard/top"
        /\ last.args[1] = Undefined => Newest.config.params = Undefined
        /\ last.args[1].t = "number" =>
               Newest.config.params = Obj(<< <<"limit", last.args[1]>> >>)

\* what the code does of C10: the limit is sent when it is not 0
C10_TruthyLimitSent ==
    IsCall("getLeaderboard") =>
        /\ last.result = "dispatched"
        /\ last.sent = 1
        /\ Newest.config.method = "get"
        /\ Newest.config.url = "/leaderboard/top"
        /\ last.args[1] = Undefined => Newest.config.params = Undefined
        /\ (last.args[1].t = "number" /\ last.args[1].n # 0) =>
               Newest.config.params = Obj(<< <<"limit", last.args[1]>> >>)

\* r is the reference normalization of the string u: u without its
\* surrounding whitespace, prefixed with https:// unless it starts with
\* http:// or https:// in any letter case, less one trailing slash
IsReferenceOf(r, u) ==
    \E i \in 0..Len(u), j \in 0..Len(u) :
        /\ i <= j
        /\ \A k \in 1..i : IsWhitespace(Char(u, k))
        /\ \A k \in (j + 1)..Len(u) : IsWhitespace(Char(u, k))
        /\ i < j => (~IsWhitespace(Char(u, i + 1)) /\ ~IsWhitespace(Char(u, j)))
        /\ LET core == SubSeq(u, i + 1, j)
               prefixed ==
                   \/ Len(core) >= 7 /\ ToLowerCase(SubSeq(core, 1, 7)) = "http://"
                   \/ Len(core) >= 8 /\ ToLowerCase(SubSeq(core, 1, 8)) = "https://"
               full == IF prefixed THEN core ELSE "https://" \o core
           IN  \/ Char(full, Len(full)) = "/" /\ r \o "/" = full
               \/ Char(full, Len(full)) # "/" /\ r = full

\* the URL a constructor or setBaseUrl call works on
GivenUrl ==
    IF last.op = "constructor" /\ last.args[1] = Undefined
    THEN DEFAULT_BASE_URL
    ELSE last.args[1].s

\* C7: after the constructor or a successful setBaseUrl(u), this.baseURL and
\* the transport's baseURL are both the reference normalization of u.
C7_StoredUrlIsNormalized ==
    (last.op \in {"constructor", "setBaseUrl"} /\ last.result = "returned") =>
        /\ IsReferenceOf(baseURL, GivenUrl)
        /\ client.baseURL = baseURL

\* C7 witness: setBaseUrl(" a.io/ ") stored "https://a.io" on the client
\* and on the transport
C7_Witness ==
    /\ last.op = "setBaseUrl"
    /\ last.args = <<Str(" a.io/ ")>>
    /\ last.result = "returned"
    /\ baseURL = "https://a.io"
    /\ client.baseURL = "https://a.io"

\* C8: normalizeBaseUrl is idempotent: wherever it succeeds, normalizing its
\* result succeeds and gives the same string.
C8_Idempotent ==
    last.op = "normalizeBaseUrl twice" =>
        /\ last.result = "returned"
        /\ last.value = last.args[2]

\* C9: setBaseUrl, and the constructor when a base URL argument is passed,
\* fail on an empty or absent URL with the missing-URL error and without a
\* transport invocation; a failed setBaseUrl leaves this.baseURL, the
\* transport's baseURL, the token, the header and the pending requests as
\* they were, and a failed constructor yields no client.
C9_EmptyUrlRejected ==
    [][/\ (last'.op = "setBaseUrl" /\ ~Truthy(last'.args[1])) =>
              /\ last'.result = "threw"
              /\ last'.error.message = "A base URL must be provided."
              /\ last'.sent = 0
              /\ UNCHANGED <<constructed, baseURL, client, appCheckToken, inflight>>
       /\ (last'.op = "constructor" /\ last'.args[1] \in {Null, Str("")}) =>
              /\ last'.result = "threw"
              /\ last'.error.message = "A base URL must be provided."
              /\ last'.sent = 0
              /\ ~constructed'
              /\ UNCHANGED <<baseURL, client, appCheckToken, inflight>>]_vars

\* C9 witness: setBaseUrl("") failed on a client that holds a token and has
\* a request pending
C9_Witness ==
    /\ last.op = "setBaseUrl"
    /\ last.args = <<Str("")>>
    /\ last.result = "threw"
    /\ baseURL = "https://example.com"
    /\ client.baseURL = "https://example.com"
    /\ appCheckToken = Str("abc")
    /\ client.headers = (AppCheckHeader :> "abc")
    /\ Len(inflight) = 1

\* a step that changes the configuration: the stored base URL or token, or
\* the defaults of the HTTP client
ConfigurationChanges ==
    \/ baseURL' # baseURL
    \/ appCheckToken' # appCheckToken
    \/ client' # client

\* a step that issues a request: it joins the pending ones, which stay as they
\* were, and carries the base URL and headers the client had at the call
IssuesWithCurrentConfiguration ==
    /\ Len(inflight') = Len(inflight) + 1
    /\ SubSeq(inflight', 1, Len(inflight)) = inflight
    /\ inflight'[Len(inflight')].baseURL = client.baseURL
    /\ inflight'[Len(inflight')].headers = client.headers
    /\ inflight'[Len(inflight')].headers = HeadersFor(appCheckToken)
    /\ last'.result = "dispatched"

\* a step that completes one pending request, as it was issued; the others
\* stay pending as they were
CompletesAsIssued ==
    \E i \in 1..Len(inflight) :
        /\ inflight' = Remove(inflight, i)
        /\ last'.op = inflight[i].op
        /\ last'.context = inflight[i].context
        /\ last'.result \in {"resolved", "rejected"}

\* nothing waits for a pending request: the setters can be entered (setBaseUrl
\* here with an argument it goes on to refuse), any pending request can be the
\* next to complete, and a further call can be issued
NothingWaits ==
    constructed =>
        /\ ENABLED SetBaseUrl(Null)
        /\ \A t \in ConfigInputs.tokens : ENABLED SetAppCheckToken(t)
        /\ \A i \in 1..Len(inflight) : ENABLED Settle(i, Ok)
        /\ Len(inflight) < MaxInflight =>
               /\ ENABLED GetImage
               /\ ENABLED Health
               /\ ENABLED StartGame

ValidatingOps == {"submitScore", "submitAiGuess"}

\* the error of a protected method called without a token
MissingTokenMessage(op) ==
    "An App Check token is required to " \o ProtectedAction[op]
        \o ". Call setAppCheckToken(token) first."

\* the errors submitScore and submitAiGuess report about their arguments
ArgumentMessages ==
    {"gameSessionId is required to submit a score.",
     "score must be provided as a number.",
     "matchId is required to submit an AI duel guess.",
     "roundIndex must be a non-negative number."}

\* C12: submitScore and submitAiGuess test the token before their arguments:
\* called with no token configured they fail with the missing-token error
\* whatever the arguments, valid or not; an argument error (missing id or
\* matchId, non-numeric score, non-numeric or negative roundIndex) is reported
\* only when a token is configured; and in both cases the transport is not
\* invoked.
C12_TokenBeforeArguments ==
    \A op \in ValidatingOps :
        IsCall(op) =>
            /\ ~Truthy(appCheckToken) =>
                   /\ last.result = "threw"
                   /\ last.error.message = MissingTokenMessage(op)
                   /\ last.sent = 0
            /\ (last.result = "threw" /\ last.error.message \in ArgumentMessages) =>
                   /\ Truthy(appCheckToken)
                   /\ last.sent = 0

\* submitAiGuess(undefined, -1, "France") with no token: both arguments are
\* invalid, and the error is the missing-token one
C12_Witness ==
    /\ IsCall("submitAiGuess")
    /\ ~Truthy(appCheckToken)
    /\ last.args = <<Undefined, Num(-1), Str("France")>>
    /\ last.result = "threw"
    /\ last.error.message = MissingTokenMessage("submitAiGuess")
    /\ last.sent = 0
    /\ inflight = <<>>

====
